---- MODULE Spec2Model ----
(***************************************************************************)
(* A model of ssBind's substructure-anchored conformer builder             *)
(* (ssBind/generator/AbstractConformerGenerator.py) and of the two file    *)
(* helpers of ssBind/io.py (MolFromInput, makeUniqueNames).                *)
(*                                                                         *)
(* Molecules live in a store of objects, mols, addressed by identity, so   *)
(* that "which object does a toolkit call mutate" is part of the model.    *)
(* Coordinates are points <<x, y, z>> of an integer grid; the toolkit's    *)
(* stochastic or numeric results (substructure enumeration, embedding,     *)
(* force-field steps) are nondeterministic choices from small sets.        *)
(***************************************************************************)
EXTENDS Integers, Sequences, FiniteSets, TLC

VARIABLES
    mols,               \* object store: molecule identity -> molecule value
    live,               \* identities currently allocated
    matches_ref,        \* ref.GetSubstructMatches(submol, uniquify=False)
    matches_lig,        \* ligand.GetSubstructMatches(submol, uniquify=False)
    distTol,            \* kwargs.get("distTol", 1.0)
    hasMapping,         \* whether self._mappingRefToLig / _mappingLigToRef exist
    mappingRefToLig,    \* self._mappingRefToLig
    mappingLigToRef,    \* self._mappingLigToRef
    pc,                 \* position of the (single) caller
    error,              \* the exception the last call raised, "" if none
    arg,                \* identity passed to the running / last _embed or _minimize
    cur,                \* identity bound to l_embed / mcp in the running call
    ret,                \* identity returned by the last call, 0 if none
    seed,               \* randomSeed of the running / last _embed
    coordMap,           \* coordMap built by _embed
    embedStatus,        \* what EmbedMolecule returned (0 ok, -1 failed), 1 before
    restrained,         \* atom indices given to ff.UFFAddPositionConstraint
    maxIters,           \* local maxIters of _minimize
    batches,            \* number of ff.Minimize(maxIts=4) calls of this _minimize
    lastBatch,          \* what the last ff.Minimize call returned (0 converged)
    itsRun,             \* iterations the last ff.Minimize call ran
    ops,                \* coordinate-changing toolkit calls of the running call
    atomMapUsed,        \* atomMap argument of the last AllChem.AlignMol call
    argBefore,          \* value of the argument molecule when the call began
    refBefore,          \* value of the reference molecule when the call began
    liveBefore,         \* identities allocated when the call began
    isfile,             \* os.path.isfile(molecule)
    mol_format,         \* os.path.splitext(molecule)[1][1:].lower()
    parse,              \* what each RDKit reader does on the file
    ioResult,           \* outcome of MolFromInput, "" before the call
    lines,              \* file.readlines() of the MOL2 file
    pos,                \* index of the next line of the for loop
    number,             \* dict number of makeUniqueNames
    processing_atoms_section,
    updated_lines,      \* list updated_lines
    written             \* whether file.writelines(updated_lines) has run

genVars == <<mols, live, matches_ref, matches_lig, distTol, hasMapping,
             mappingRefToLig, mappingLigToRef, pc, error, arg, cur, ret, seed,
             coordMap, embedStatus, restrained, maxIters, batches, lastBatch,
             itsRun, ops, atomMapUsed, argBefore, refBefore, liveBefore>>
ioVars == <<isfile, mol_format, parse, ioResult>>
nameVars == <<lines, pos, number, processing_atoms_section, updated_lines, written>>
vars == <<genVars, ioVars, nameVars>>

----------------------------------------------------------------------------
(* Bounds of the model. *)

\* atoms of the ligand; the reference substructure has one atom fewer
NLig == 3
\* grid coordinates run over 0..MaxCoord
MaxCoord == 2
\* longest list of substructure matches the toolkit returns
MaxMatches == 2
\* tolerances run over 0..MaxTol
MaxTol == 2

NRef == NLig - 1
RefAtoms == 0 .. (NRef - 1)
LigAtoms == 0 .. (NLig - 1)
Points == {<<x, 0, 0>> : x \in 0 .. MaxCoord}

\* identities of the store: the reference, the ligand template, and two more
RefId == 1
LigId == 2
Ids == {1, 2, 3, 4}

Min(a, b) == IF a <= b THEN a ELSE b

----------------------------------------------------------------------------
(* Molecules: a topology (here the atom count) and a list of conformers,   *)
(* each a map atom index -> point.                                         *)

NoMol == [natoms |-> 0, confs |-> <<>>]
Mol(n, c) == [natoms |-> n, confs |-> <<c>>]

\* the trusted pose of the reference: atom a sits at <<a, 0, 0>>
RefPose == [a \in RefAtoms |-> <<a, 0, 0>>]
LigPoses == [LigAtoms -> Points]

\* mol.GetConformer().GetAtomPosition(i)
GetAtomPosition(m, i) == m.confs[1][i]

(* Substructure matches of a chain pattern of k atoms in a chain molecule  *)
(* of n atoms: every window of k consecutive atoms, read in both           *)
(* directions (uniquify=False keeps the symmetric duplicates).             *)
Windows(n, k) ==
    {[i \in 1 .. k |-> a + i - 1] : a \in 0 .. (n - k)} \cup
    {[i \in 1 .. k |-> a + k - i] : a \in 0 .. (n - k)}

\* the lists of at most MaxMatches distinct matches, in any order
MatchLists(S) ==
    UNION {{s \in [1 .. n -> S] : \A i, j \in 1 .. n : i # j => s[i] # s[j]} :
           n \in 0 .. MaxMatches}

----------------------------------------------------------------------------
(* AbstractConformerGenerator._MCS_AtomMap *)

NoMCS == "ERROR: No MCS found!"

\* (p - q).Length() ** 2
LengthSq(p, q) ==
    (p[1] - q[1]) * (p[1] - q[1]) + (p[2] - q[2]) * (p[2] - q[2]) +
    (p[3] - q[3]) * (p[3] - q[3])

\* mutant: the comparison is not strict
LengthLtLoose(p, q, tol) == tol >= 0 /\ LengthSq(p, q) <= tol * tol

\* d < distTol for d = (p - q).Length(): lengths are non-negative, so this
\* is false for tol <= 0 and otherwise compares the squares
LengthLt(p, q, tol) == tol > 0 /\ LengthSq(p, q) < tol * tol

\* zip(match_ref, match_lig): pairs up to the shorter tuple
Zip(a, b) == [k \in 1 .. Min(Len(a), Len(b)) |-> <<a[k], b[k]>>]

\* all([d < distTol for d in dist]) for one combination
AllWithin(ligand, ref, tol, match_ref, match_lig) ==
    \A k \in 1 .. Min(Len(match_ref), Len(match_lig)) :
        LengthLt(GetAtomPosition(ref, match_ref[k]),
                 GetAtomPosition(ligand, match_lig[k]), tol)

\* mutant: a combination is accepted as soon as one pair is close
MCS_ScanAny(ligand, ref, tol, mref, mlig) ==
    LET good(i, j) == \E k \in 1 .. Min(Len(mref[i]), Len(mlig[j])) :
                          LengthLt(GetAtomPosition(ref, mref[i][k]),
                                   GetAtomPosition(ligand, mlig[j][k]), tol)
        hits == {c \in (1 .. Len(mref)) \X (1 .. Len(mlig)) : good(c[1], c[2])}
        first == CHOOSE c \in hits : \A d \in hits :
                     c[1] < d[1] \/ (c[1] = d[1] /\ c[2] <= d[2])
    IN  IF hits = {} THEN [raised |-> TRUE, value |-> <<>>]
        ELSE [raised |-> FALSE, value |-> Zip(mref[first[1]], mlig[first[2]])]

\* the two nested for loops: reference matches outside, ligand matches inside;
\* returns at the first accepted combination, raises after the last one
MCS_Scan(ligand, ref, tol, mref, mlig) ==
    LET RECURSIVE Loop(_, _)
        Loop(i, j) ==
            IF i > Len(mref) THEN [raised |-> TRUE, value |-> <<>>]
            ELSE IF j > Len(mlig) THEN Loop(i + 1, 1)
            ELSE IF AllWithin(ligand, ref, tol, mref[i], mlig[j])
                 THEN [raised |-> FALSE, value |-> Zip(mref[i], mlig[j])]
                 ELSE Loop(i, j + 1)
    IN  Loop(1, 1)

MCS_AtomMap(ligand, ref, tol) == MCS_Scan(ligand, ref, tol, matches_ref, matches_lig)

\* [(j, i) for i, j in self._mappingRefToLig]
Swapped(m) == [k \in 1 .. Len(m) |-> <<m[k][2], m[k][1]>>]

----------------------------------------------------------------------------
(* Toolkit primitives on the object store. *)

\* distTol = kwargs.get("distTol", 1.0)
DefaultDistTol == 1
\* maxIters = 10
MaxIters == 10
\* ff.Minimize(maxIts=4)
MaxIts == 4
Seeds == {-1, 7}

\* ligand atom indices of the correspondence: the j of each (i, j)
LigandSide(m) == {m[k][2] : k \in 1 .. Len(m)}
\* reference atom indices of the correspondence: the i of each (i, j)
ReferenceSide(m) == {m[k][1] : k \in 1 .. Len(m)}

\* the smallest identity not in use
FreshId(used) == CHOOSE i \in Ids \ used : \A j \in Ids \ used : i <= j

\* what the caller still holds when it starts a call on molecule a: the
\* reference, the template and a; conformers of earlier calls are dropped
Held(a) == {RefId, LigId, a}

\* mutant: no duplicate is made, the call works on the object it was given
CopyAlias(a) == a

\* deepcopy(ligand): the identity of the duplicate
CopyTarget(a) == FreshId(Held(a))

\* the store after the caller's drop and the deepcopy of a into identity c
StoreWithCopy(a, c) ==
    [i \in Ids |-> IF i = c THEN mols[a] ELSE IF i \in Held(a) THEN mols[i] ELSE NoMol]

\* the rigid motions of the grid line: a shift x -> x + d, or a half turn
\* about the z axis, (x, y) -> (d - x, -y)
Move(mv, p) == IF mv.flip THEN <<mv.d - p[1], 0 - p[2], p[3]>>
               ELSE <<p[1] + mv.d, p[2], p[3]>>

\* sum over the pairs (probe atom, reference atom) of the squared deviation
RECURSIVE Deviation(_, _, _, _, _)
Deviation(mv, prbConf, refConf, atomMap, k) ==
    IF k > Len(atomMap) THEN 0
    ELSE LengthSq(Move(mv, prbConf[atomMap[k][1]]), refConf[atomMap[k][2]]) +
         Deviation(mv, prbConf, refConf, atomMap, k + 1)

\* the whole-step motions between the extreme placements of a pair
Motions(prbConf, refConf, atomMap) ==
    LET K == 1 .. Len(atomMap)
        sh == {refConf[atomMap[k][2]][1] - prbConf[atomMap[l][1]][1] : k, l \in K}
        fl == {refConf[atomMap[k][2]][1] + prbConf[atomMap[l][1]][1] : k, l \in K}
        lo(S) == CHOOSE a \in S : \A b \in S : a <= b
        hi(S) == CHOOSE a \in S : \A b \in S : b <= a
        span(S) == lo(S) .. hi(S)
    IN  {[flip |-> FALSE, d |-> d] : d \in span(sh)} \cup
        {[flip |-> TRUE, d |-> d] : d \in span(fl)}

\* AllChem.AlignMol(prb, ref, atomMap): the least-squares rigid motion is
\* applied to the probe's conformer; the reference is only read
AlignMol(store, prb, refm, atomMap) ==
    LET pc0 == store[prb].confs[1]
        rc0 == store[refm].confs[1]
        Ms == Motions(pc0, rc0, atomMap)
        best == CHOOSE mv \in Ms : \A o \in Ms :
                    Deviation(mv, pc0, rc0, atomMap, 1) <= Deviation(o, pc0, rc0, atomMap, 1)
    IN  [store EXCEPT ![prb].confs = <<[a \in DOMAIN pc0 |-> Move(best, pc0[a])]>>]

\* mutant: the pairs are passed in the (reference, ligand) orientation
AlignAtomMapRefToLig == mappingRefToLig

\* the atomMap argument of _alignToRef: (ligand, reference) pairs
AlignAtomMap == mappingLigToRef

\* self._alignToRef(ligand)
alignToRef(store, l) == AlignMol(store, l, RefId, AlignAtomMap)

\* conformations EmbedMolecule can produce under coordMap: mapped atoms at
\* their given points, the others anywhere on the grid
Embeddings(cm) ==
    {[a \in LigAtoms |-> IF a \in DOMAIN cm THEN cm[a] ELSE f[a]] :
        f \in [LigAtoms \ DOMAIN cm -> Points]}

\* conformations one ff.Minimize batch can leave: nothing moves, or the
\* restrained atoms stay and the others move anywhere on the grid
Relaxations(conf, fixed) ==
    {conf} \cup
    {[a \in LigAtoms |-> IF a \in fixed THEN conf[a] ELSE f[a]] :
        f \in [LigAtoms \ fixed -> Points]}

\* iterations a batch can have run: all maxIts when it did not converge
Iterations(r) == IF r = 0 THEN {1, MaxIts} ELSE {MaxIts}

----------------------------------------------------------------------------
(* AbstractConformerGenerator: construction, _embed, _minimize. *)

callVars == <<arg, cur, ret, seed, coordMap, embedStatus, restrained, maxIters,
              batches, lastBatch, itsRun, ops, atomMapUsed, argBefore, refBefore,
              liveBefore>>
inputVars == <<matches_ref, matches_lig, distTol>>
mapVars == <<hasMapping, mappingRefToLig, mappingLigToRef>>

\* __init__: the correspondence is computed once; when _MCS_AtomMap raises,
\* the exception leaves __init__ before either attribute is assigned
Construct ==
    /\ pc = "new"
    /\ LET r == MCS_AtomMap(mols[LigId], mols[RefId], distTol)
       IN  IF r.raised
           THEN /\ pc' = "failed"
                /\ error' = NoMCS
                /\ UNCHANGED mapVars
           ELSE /\ pc' = "idle"
                /\ hasMapping' = TRUE
                /\ mappingRefToLig' = r.value
                /\ mappingLigToRef' = Swapped(r.value)
                /\ UNCHANGED error
    /\ UNCHANGED <<mols, live, inputVars, callVars, ioVars, nameVars>>

\* _embed, lines 62-68: coordMap from the argument's conformer 0 at the
\* ligand index of each pair, then l_embed = deepcopy(ligand)
EmbedCall(a, s) ==
    /\ pc = "idle"
    /\ a \in live \ {RefId}
    /\ coordMap' = [l \in LigandSide(mappingRefToLig) |-> GetAtomPosition(mols[a], l)]
    /\ cur' = CopyTarget(a)
    /\ mols' = StoreWithCopy(a, cur')
    /\ live' = Held(a) \cup {cur'}
    /\ arg' = a /\ seed' = s /\ ret' = 0 /\ error' = "" /\ ops' = <<>>
    /\ embedStatus' = 1
    /\ argBefore' = mols[a] /\ refBefore' = mols[RefId] /\ liveBefore' = Held(a)
    /\ restrained' = {} /\ maxIters' = 0 /\ batches' = 0 /\ lastBatch' = 1
    /\ itsRun' = 0
    /\ pc' = "embed"
    /\ UNCHANGED <<inputVars, mapVars, atomMapUsed, ioVars, nameVars>>

\* EmbedMolecule(l_embed, coordMap=coordMap, randomSeed=seed) succeeds: the
\* duplicate gets a new conformer 0; the returned id is discarded by the code
EmbedMoleculeOk ==
    /\ pc = "embed"
    /\ \E q \in Embeddings(coordMap) : mols' = [mols EXCEPT ![cur].confs = <<q>>]
    /\ embedStatus' = 0
    /\ ops' = Append(ops, "embed")
    /\ pc' = "embed_align"
    /\ UNCHANGED <<live, inputVars, mapVars, error, arg, cur, ret, seed, coordMap,
                   restrained, maxIters, batches, lastBatch, itsRun, atomMapUsed,
                   argBefore, refBefore, liveBefore, ioVars, nameVars>>

\* EmbedMolecule fails and returns -1, which the code discards as well. The
\* toolkit leaves the duplicate either without conformers (clearConfs) or
\* with the conformer it was copied with
EmbedMoleculeFail ==
    /\ pc = "embed"
    /\ \E cleared \in BOOLEAN :
           mols' = [mols EXCEPT ![cur].confs = IF cleared THEN <<>> ELSE @]
    /\ embedStatus' = -1
    /\ ops' = Append(ops, "embed")
    /\ pc' = "embed_align"
    /\ UNCHANGED <<live, inputVars, mapVars, error, arg, cur, ret, seed, coordMap,
                   restrained, maxIters, batches, lastBatch, itsRun, atomMapUsed,
                   argBefore, refBefore, liveBefore, ioVars, nameVars>>

\* AlignMol raises ValueError when the probe has no conformer or a pair
\* names an atom that the probe or the reference does not have
AlignRaises(store, prb, refm, atomMap) ==
    \/ store[prb].confs = <<>>
    \/ \E k \in 1 .. Len(atomMap) :
           \/ atomMap[k][1] \notin 0 .. (store[prb].natoms - 1)
           \/ atomMap[k][2] \notin 0 .. (store[refm].natoms - 1)

\* self._alignToRef(x); return x, for x = l_embed or mcp. When AlignMol
\* raises, nothing is returned and the duplicate is garbage
AlignAndReturn ==
    /\ atomMapUsed' = AlignAtomMap
    /\ IF AlignRaises(mols, cur, RefId, AlignAtomMap)
       THEN /\ error' = "ValueError"
            /\ ret' = 0
            /\ mols' = [mols EXCEPT ![cur] = NoMol]
            /\ live' = live \ {cur}
            /\ UNCHANGED ops
       ELSE /\ mols' = alignToRef(mols, cur)
            /\ ops' = Append(ops, "align")
            /\ ret' = cur
            /\ UNCHANGED <<live, error>>

\* _embed, lines 70-71
EmbedAlign ==
    /\ pc = "embed_align"
    /\ AlignAndReturn
    /\ pc' = "idle"
    /\ UNCHANGED <<inputVars, mapVars, arg, cur, seed, coordMap, embedStatus,
                   restrained, maxIters, batches, lastBatch, itsRun, argBefore,
                   refBefore, liveBefore, ioVars, nameVars>>

\* the atoms _minimize restrains: [i for i, j in self._mappingRefToLig]
RestraintAtoms == ReferenceSide(mappingRefToLig)

\* _minimize, lines 74-78: mcp = deepcopy(ligand), the force field of mcp,
\* one position constraint per listed atom, maxIters = 10
MinimizeCall(a) ==
    /\ pc = "idle"
    /\ a \in live \ {RefId}
    /\ cur' = CopyTarget(a)
    /\ mols' = StoreWithCopy(a, cur')
    /\ live' = Held(a) \cup {cur'}
    /\ restrained' = RestraintAtoms
    /\ maxIters' = MaxIters
    /\ batches' = 0 /\ lastBatch' = 1 /\ itsRun' = 0
    /\ arg' = a /\ ret' = 0 /\ error' = "" /\ ops' = <<>>
    /\ embedStatus' = 1
    /\ argBefore' = mols[a] /\ refBefore' = mols[RefId] /\ liveBefore' = Held(a)
    /\ seed' = -1 /\ coordMap' = <<>>
    /\ pc' = "min_loop"
    /\ UNCHANGED <<inputVars, mapVars, atomMapUsed, ioVars, nameVars>>

\* one evaluation of the loop condition, line 79: ff.Minimize(maxIts=4) runs
\* first (0 = converged, 1 = more iterations needed), maxIters > 0 is tested
\* only when it returned non-zero; the body, line 80, decrements maxIters
MinimizeBatch ==
    /\ pc = "min_loop"
    /\ \E q \in Relaxations(mols[cur].confs[1], restrained), r \in {0, 1} :
         \E n \in Iterations(r) :
           /\ mols' = [mols EXCEPT ![cur].confs = <<q>>]
           /\ lastBatch' = r
           /\ itsRun' = n
           /\ IF r # 0 /\ maxIters > 0
              THEN maxIters' = maxIters - 1 /\ pc' = "min_loop"
              ELSE maxIters' = maxIters /\ pc' = "min_align"
    /\ batches' = batches + 1
    /\ ops' = Append(ops, "minimize")
    /\ UNCHANGED <<live, inputVars, mapVars, error, arg, cur, ret, seed, coordMap,
                   embedStatus, restrained, atomMapUsed, argBefore, refBefore,
                   liveBefore, ioVars, nameVars>>

\* mutant: the conformer is returned as the last batch left it
MinimizeReturnUnaligned ==
    /\ pc = "min_align"
    /\ ret' = cur
    /\ pc' = "idle"
    /\ UNCHANGED <<mols, live, inputVars, mapVars, error, arg, cur, seed, coordMap,
                   embedStatus, restrained, maxIters, batches, lastBatch, itsRun,
                   ops, atomMapUsed, argBefore, refBefore, liveBefore, ioVars, nameVars>>

\* _minimize, lines 82-83
MinimizeAlign ==
    /\ pc = "min_align"
    /\ AlignAndReturn
    /\ pc' = "idle"
    /\ UNCHANGED <<inputVars, mapVars, arg, cur, seed, coordMap, embedStatus,
                   restrained, maxIters, batches, lastBatch, itsRun, argBefore,
                   refBefore, liveBefore, ioVars, nameVars>>

----------------------------------------------------------------------------
(* Specifications of the generator. *)

IdleIO == isfile = FALSE /\ mol_format = "" /\ parse = <<>> /\ ioResult = ""
IdleNames ==
    /\ lines = <<>> /\ pos = 1 /\ number = <<>>
    /\ processing_atoms_section = FALSE /\ updated_lines = <<>> /\ written = FALSE

\* before __init__: the two molecules as MolFromInput returned them
InitGenerator ==
    /\ live = {RefId, LigId}
    /\ hasMapping = FALSE /\ mappingRefToLig = <<>> /\ mappingLigToRef = <<>>
    /\ pc = "new" /\ error = ""
    /\ arg = 0 /\ cur = 0 /\ ret = 0 /\ seed = -1 /\ coordMap = <<>>
    /\ embedStatus = 1 /\ restrained = {} /\ maxIters = 0 /\ batches = 0
    /\ lastBatch = 1 /\ itsRun = 0 /\ ops = <<>> /\ atomMapUsed = <<>>
    /\ argBefore = NoMol /\ refBefore = NoMol /\ liveBefore = {}

Store(ligPose) ==
    [i \in Ids |-> IF i = RefId THEN Mol(NRef, RefPose)
                   ELSE IF i = LigId THEN Mol(NLig, ligPose) ELSE NoMol]

\* construction for any ligand pose, any lists of matches, any tolerance
InitMap ==
    /\ InitGenerator /\ IdleIO /\ IdleNames
    /\ \E p \in LigPoses : mols = Store(p)
    /\ matches_ref \in MatchLists(Windows(NRef, NRef))
    /\ matches_lig \in MatchLists(Windows(NLig, NRef))
    /\ distTol \in 0 .. MaxTol

NextMap == Construct

SpecMap == InitMap /\ [][NextMap]_vars

\* the generator in use: default tolerance, one match on each side
InitGen ==
    /\ InitGenerator /\ IdleIO /\ IdleNames
    /\ \E p \in LigPoses : mols = Store(p)
    /\ matches_ref = <<[i \in 1 .. NRef |-> i - 1]>>
    /\ matches_lig \in {<<m>> : m \in Windows(NLig, NRef)}
    /\ distTol = DefaultDistTol

NextGen ==
    \/ Construct
    \/ \E a \in Ids, s \in Seeds : EmbedCall(a, s)
    \/ EmbedMoleculeOk
    \/ EmbedMoleculeFail
    \/ EmbedAlign
    \/ \E a \in Ids : MinimizeCall(a)
    \/ MinimizeBatch
    \/ MinimizeAlign

SpecGen == InitGen /\ [][NextGen]_vars

----------------------------------------------------------------------------
(* Properties of the generator. *)

\* every paired distance of combination (i, j) is strictly below distTol
PairDistancesBelow(i, j) ==
    \A k \in 1 .. Len(matches_ref[i]) :
        /\ distTol > 0
        /\ LengthSq(mols[RefId].confs[1][matches_ref[i][k]],
                    mols[LigId].confs[1][matches_lig[j][k]]) < distTol * distTol

Combinations == (1 .. Len(matches_ref)) \X (1 .. Len(matches_lig))
Earlier(c, d) == c[1] < d[1] \/ (c[1] = d[1] /\ c[2] < d[2])

\* C1: the stored correspondence pairs the reference match and the ligand
\* match of the first combination, reference matches outermost, whose paired
\* distances are all strictly below the tolerance; no earlier combination
\* passes, and no combination with a distance >= the tolerance is returned.
C1_FirstAcceptedCombination ==
    hasMapping =>
        \E c \in Combinations :
            /\ PairDistancesBelow(c[1], c[2])
            /\ \A d \in Combinations : Earlier(d, c) => ~PairDistancesBelow(d[1], d[2])
            /\ Len(mappingRefToLig) = Len(matches_ref[c[1]])
            /\ \A k \in 1 .. Len(mappingRefToLig) :
                   mappingRefToLig[k] = <<matches_ref[c[1]][k], matches_lig[c[2]][k]>>

\* a construction that skipped a first combination with a distance equal to
\* the tolerance and returned a later one
C1_Witness ==
    /\ hasMapping
    /\ ~PairDistancesBelow(1, 1)
    /\ \E k \in 1 .. Len(matches_ref[1]) :
           LengthSq(mols[RefId].confs[1][matches_ref[1][k]],
                    mols[LigId].confs[1][matches_lig[1][k]]) = distTol * distTol
    /\ Len(matches_ref) = MaxMatches /\ Len(matches_lig) = MaxMatches

\* C2: construction fails with the mapping error exactly when no combination
\* has all paired distances strictly below the tolerance (also with an empty
\* match list); the error leaves the constructor and nothing is stored.
C2_FailsExactlyWithoutCombination ==
    pc # "new" =>
        /\ (pc = "failed") <=> ~(\E c \in Combinations : PairDistancesBelow(c[1], c[2]))
        /\ pc = "failed" =>
               /\ error = NoMCS
               /\ ~hasMapping /\ mappingRefToLig = <<>> /\ mappingLigToRef = <<>>

\* a failed construction although both lists hold matches and one pair of
\* the first combination sits exactly at the tolerance
C2_Witness ==
    /\ pc = "failed"
    /\ Len(matches_ref) > 0 /\ Len(matches_lig) > 0
    /\ \E k \in 1 .. Len(matches_ref[1]) :
           LengthSq(mols[RefId].confs[1][matches_ref[1][k]],
                    mols[LigId].confs[1][matches_lig[1][k]]) = distTol * distTol

\* C3: in every _minimize call the atoms that receive a positional restraint
\* are exactly the ligand atoms of the correspondence.
C3_RestraintsOnMatchedLigandAtoms ==
    pc \in {"min_loop", "min_align"} =>
        restrained = {mappingRefToLig[k][2] : k \in 1 .. Len(mappingRefToLig)}

\* C4: when the toolkit's embedding step fails, _embed returns no molecule
\* and tells its caller that the embedding failed.
C4_EmbedFailureIsSignalled ==
    (pc = "idle" /\ embedStatus = -1) => (ret = 0 /\ error = "EmbeddingFailed")

\* C5: the molecule passed to _embed or _minimize and the reference molecule
\* have after the call the value they had before it; the call works on a
\* duplicate allocated inside the call, and returns that duplicate.
C5_ArgumentAndReferenceUntouched ==
    arg # 0 =>
        /\ mols[arg] = argBefore
        /\ mols[RefId] = refBefore
        /\ cur \notin liveBefore
        /\ ret # 0 => (ret = cur /\ ret # arg /\ ret # RefId)

\* a _minimize of a conformer that an earlier call returned, whose result
\* differs from its argument
C5_Witness ==
    /\ pc = "idle" /\ ret # 0 /\ arg # LigId
    /\ ops[1] = "minimize"
    /\ mols[ret] # mols[arg]

\* C8 (its safety part): a batch runs at most 4 iterations, a _minimize runs
\* at most 10 batches, and no batch follows a batch that converged.
C8_AtMostTenBatches ==
    /\ itsRun <= MaxIts
    /\ batches <= 10
    /\ (pc = "min_loop" /\ batches > 0) => lastBatch # 0

\* C9: a returned conformer has seen, in this call, one embedding or a run of
\* minimization batches, and then the alignment as the last step.
C9_AlignIsLast ==
    (pc = "idle" /\ ret # 0) =>
        /\ Len(ops) >= 2
        /\ ops[Len(ops)] = "align"
        /\ \/ ops = <<"embed", "align">>
           \/ \A k \in 1 .. (Len(ops) - 1) : ops[k] = "minimize"

\* embed, align, minimize (several batches), align: the _minimize of a
\* conformer that _embed returned
C9_Witness ==
    /\ pc = "idle" /\ ret # 0 /\ arg # LigId
    /\ Len(ops) >= 3 /\ ops[1] = "minimize"
    /\ mols[arg] # mols[LigId]

\* C10: the stored correspondence stays what construction computed,
\* _mappingLigToRef is _mappingRefToLig with each pair swapped, in the same
\* order, and every alignment is given the (ligand, reference) pairs.
C10_CorrespondenceStable ==
    hasMapping =>
        /\ mappingRefToLig = MCS_AtomMap(mols[LigId], mols[RefId], distTol).value
        /\ Len(mappingLigToRef) = Len(mappingRefToLig)
        /\ \A k \in 1 .. Len(mappingRefToLig) :
               mappingLigToRef[k] = <<mappingRefToLig[k][2], mappingRefToLig[k][1]>>
        /\ atomMapUsed # <<>> =>
               /\ Len(atomMapUsed) = Len(mappingRefToLig)
               /\ \A k \in 1 .. Len(mappingRefToLig) :
                      atomMapUsed[k] = <<mappingRefToLig[k][2], mappingRefToLig[k][1]>>

\* two calls later, with a correspondence whose reference and ligand indices
\* differ in every pair
C10_Witness ==
    /\ pc = "idle" /\ ret # 0 /\ arg # LigId
    /\ atomMapUsed # <<>>
    /\ \A k \in 1 .. Len(mappingRefToLig) : mappingRefToLig[k][1] # mappingRefToLig[k][2]

----------------------------------------------------------------------------
(* ssBind/io.py: MolFromInput *)

\* FILE_PARSERS, in insertion order: extension, reader
FILE_PARSERS ==
    << <<"mol", "MolFromMolFile">>, <<"mol2", "MolFromMol2File">>,
       <<"pdb", "MolFromPDBFile">>, <<"sdf", "MolFromMolFile">> >>
Readers == {FILE_PARSERS[k][2] : k \in 1 .. Len(FILE_PARSERS)}
\* extensions a path can have: none, the supported ones, an unsupported one
Extensions == {"", "mol", "mol2", "pdb", "sdf", "xyz"}
\* what a reader does with a file: a molecule, None, or RuntimeError
ReaderOutcomes == {"Mol", "None", "RuntimeError"}

\* lines 52-64: the readers in turn; the first molecule is returned, None
\* and RuntimeError go on to the next reader, TypeError after the last
RECURSIVE Fallback(_)
Fallback(k) ==
    IF k > Len(FILE_PARSERS) THEN "TypeError"
    ELSE IF parse[FILE_PARSERS[k][2]] = "Mol" THEN "Mol"
    ELSE Fallback(k + 1)

\* lines 41-49: content_reader[mol_format] raises KeyError, turned into
\* TypeError; otherwise the reader's result is returned as it is, and an
\* exception of the reader propagates
ByExtension ==
    IF \E k \in 1 .. Len(FILE_PARSERS) : FILE_PARSERS[k][1] = mol_format
    THEN LET k == CHOOSE i \in 1 .. Len(FILE_PARSERS) : FILE_PARSERS[i][1] = mol_format
         IN  parse[FILE_PARSERS[k][2]]
    ELSE "TypeError"

\* the outcome of MolFromInput(molecule): what it returns or raises
MolFromInput ==
    IF ~isfile THEN "SystemExit"
    ELSE IF mol_format # "" THEN ByExtension
    ELSE Fallback(1)

MolFromInputCall ==
    /\ ioResult = ""
    /\ ioResult' = MolFromInput
    /\ UNCHANGED <<isfile, mol_format, parse, genVars, nameVars>>

IdleGenerator ==
    /\ InitGenerator
    /\ mols = [i \in Ids |-> NoMol]
    /\ matches_ref = <<>> /\ matches_lig = <<>> /\ distTol = DefaultDistTol

InitIO ==
    /\ IdleGenerator /\ IdleNames
    /\ isfile \in BOOLEAN
    /\ mol_format \in Extensions
    /\ parse \in [Readers -> ReaderOutcomes]
    /\ ioResult = ""

NextIO == MolFromInputCall

SpecIO == InitIO /\ [][NextIO]_vars

\* C6: SystemExit when the path is no file; for a file, a molecule or
\* TypeError, and never None.
C6_MoleculeOrTypeError ==
    ioResult # "" =>
        /\ ~isfile => ioResult = "SystemExit"
        /\ isfile => ioResult \in {"Mol", "TypeError"}

----------------------------------------------------------------------------
(* ssBind/io.py: makeUniqueNames *)

\* most atom lines of the ATOM section
MaxAtoms == 12

\* A line of the file: "ATOM" is a line starting with @<TRIPOS>ATOM, "TRIPOS"
\* any other line starting with @<TRIPOS>, "data" any other line, with its
\* second and eighth whitespace-separated fields (atom name, residue name).
\* Names are sequences of characters.
Header(kind) == [kind |-> kind, name |-> <<>>, resname |-> <<>>]
Data(name, resname) == [kind |-> "data", name |-> name, resname |-> resname]
AtomNames == {<<"C">>, <<"C", "1">>}
UNL == <<"U", "N", "L">>
LIG == <<"L", "I", "G">>

\* str(n) for n >= 0, in decimal
RECURSIVE Str(_)
Str(n) ==
    LET digit == <<"0", "1", "2", "3", "4", "5", "6", "7", "8", "9">>[(n % 10) + 1]
    IN  IF n < 10 THEN <<digit>> ELSE Str(n \div 10) \o <<digit>>

\* f"{atom_name}{number[atom_name]}"
Numbered(name, n) == name \o Str(n)

\* lines 143-146: number[atom_name] after this atom line
Count(name) == IF name \in DOMAIN number THEN number[name] + 1 ELSE 1

\* one pass of the for loop of lines 133-162
ProcessLine ==
    /\ pos <= Len(lines)
    /\ LET line == lines[pos] IN
       IF line.kind = "ATOM"
       THEN /\ updated_lines' = Append(updated_lines, line)
            /\ processing_atoms_section' = TRUE
            /\ UNCHANGED number
       ELSE IF line.kind = "TRIPOS" /\ processing_atoms_section
       THEN /\ updated_lines' = Append(updated_lines, line)
            /\ processing_atoms_section' = FALSE
            /\ UNCHANGED number
       ELSE IF processing_atoms_section
       THEN /\ number' = [x \in DOMAIN number \cup {line.name} |->
                             IF x = line.name THEN Count(line.name) ELSE number[x]]
            /\ updated_lines' = Append(updated_lines,
                                       Data(Numbered(line.name, Count(line.name)), LIG))
            /\ UNCHANGED processing_atoms_section
       ELSE /\ updated_lines' = Append(updated_lines, line)
            /\ UNCHANGED <<number, processing_atoms_section>>
    /\ pos' = pos + 1
    /\ UNCHANGED <<lines, written, genVars, ioVars>>

\* lines 165-166: the file is rewritten once the loop is over
WriteBack ==
    /\ pos > Len(lines)
    /\ ~written
    /\ written' = TRUE
    /\ UNCHANGED <<lines, pos, number, processing_atoms_section, updated_lines,
                   genVars, ioVars>>

\* a MOL2 file as obabel writes it: the MOLECULE record, the ATOM section
\* with any atom names, the BOND section
Mol2File(names) ==
    <<Header("TRIPOS"), Data(<<"7">>, <<>>), Header("ATOM")>> \o
    [k \in 1 .. Len(names) |-> Data(names[k], UNL)] \o
    <<Header("TRIPOS"), Data(<<"1">>, <<>>)>>

InitNames ==
    /\ IdleGenerator /\ IdleIO
    /\ \E n \in 0 .. MaxAtoms : \E names \in [1 .. n -> AtomNames] :
           lines = Mol2File(names)
    /\ pos = 1 /\ number = <<>> /\ processing_atoms_section = FALSE
    /\ updated_lines = <<>> /\ written = FALSE

NextNames == ProcessLine \/ WriteBack

SpecNames == InitNames /\ [][NextNames]_vars

\* the positions of the atom lines: data lines after an ATOM header with only
\* data lines in between
AtomPositions ==
    {p \in 1 .. Len(lines) :
        /\ lines[p].kind = "data"
        /\ \E h \in 1 .. (p - 1) :
               /\ lines[h].kind = "ATOM"
               /\ \A q \in (h + 1) .. (p - 1) : lines[q].kind = "data"}

\* C7: in the rewritten file every atom line of the ATOM section has a name
\* no other atom line has, and the other lines are as they were, in order.
C7_AtomNamesUnique ==
    written =>
        /\ Len(updated_lines) = Len(lines)
        /\ \A p \in (1 .. Len(lines)) \ AtomPositions : updated_lines[p] = lines[p]
        /\ \A p, q \in AtomPositions :
               p # q => updated_lines[p].name # updated_lines[q].name

====
